---------------------------- MODULE Spec2Model ----------------------------
(***************************************************************************)
(* Satellite_Interpolation: the tile-grid mosaic pipeline                  *)
(* (fetch_stitched_frames), the per-tile fetch with retries                *)
(* (fetch_with_retries, download_tile) and the frame-sequence orchestrator *)
(* (interpolate_and_generate_video) of src/main.py; the archival grid      *)
(* planner (generate_tiles) and batch (fetch_tiles_concurrently) of        *)
(* src/raw_data_fetcher.py.                                                *)
(*                                                                         *)
(* Conventions.                                                            *)
(*  - A local time is a record [d, h, m] (day, hour, minute), what         *)
(*    strptime parses; a datetime is the number of minutes since 00:00 of  *)
(*    day 0 (IST has no daylight saving, so localize is a fixed offset).   *)
(*  - A HHMM string is a sequence of decimal digits, <<2,3,4,5>> for       *)
(*    "2345"; IntOf parses it as int() does.                               *)
(*  - Planar coordinates are integers whose unit is one pixel at the       *)
(*    finest zoom considered (MaxZoom), so that 156543.03 / 2^zoom becomes *)
(*    2^(MaxZoom - zoom) and floor / ceil are exact.                       *)
(***************************************************************************)
EXTENDS Integers, Sequences, FiniteSets, TLC

VARIABLES
    pc,                 \* position of the request being served
    req,                \* the request body being served
    response,           \* the last HTTP response of the service
    TEMP_SESSION_DIRS,  \* the registry of session directories
    fs,                 \* temp_stitched/: session id -> directory content
    session_id,         \* local of both handlers
    plan,               \* locals snapped_min_x, snapped_min_y, tile_extent, cols, rows
    current_time,       \* local of fetch_stitched_frames
    end_dt,             \* local of fetch_stitched_frames
    steps,              \* the timestamps stepped through, with the tiles each got
    net,                \* the tile service's answers to the current batch
    tile_images,        \* local list of fetch_stitched_frames
    frames,             \* local sorted list of interpolate_and_generate_video
    pair,               \* index i of the pair being processed
    moved,              \* index of the next interpolator output to move
    tools,              \* external processes run by the current video request
    served,             \* requests served so far, by endpoint
    tile,               \* one download_tile call, step by step
    taken,              \* session id -> HHMM label -> the datetime the saved frame shows
    pool,               \* the ThreadPoolExecutor of the current batch, step by step
    conc,               \* request threads and the shutdown handler, run concurrently
    grid,               \* raw_data_fetcher: one generate_tiles call and its result
    batch               \* raw_data_fetcher: one fetch_tiles_concurrently call, step by step

vars == <<pc, req, response, TEMP_SESSION_DIRS, fs, session_id, plan,
          current_time, end_dt, steps, net, tile_images,
          frames, pair, moved, tools, served, tile, taken, pool, conc,
          grid, batch>>

-----------------------------------------------------------------------------
(* Program constants (src/main.py, CONFIG).                                *)

TILE_SIZE_PX == 256
TIME_INTERVAL_MINUTES == 30
MAX_WORKERS == 8
RETRIES == 2
TileCap == 400
RifeOutputs == 32

(* Program constants (src/raw_data_fetcher.py, CONFIG).                    *)

TILE_PX == 256
FETCHER_MAX_WORKERS == 32
ZOOM_LEVEL == 5

(* Bounds of the model.                                                    *)

MaxZoom == 1
NumSessionIds == 2
MaxExhaustiveCells == 4
MaxMosaicRequests == 1
MaxVideoRequests == 1
NumThreads == 2
MaxPoolCells == 9
MaxPoolImages == 2
FloatBits == 6
FracBits == 10
MetreBits == 16
CoordStep == 1500000
MaxCoord == 3
MaxBatchTiles == 3

-----------------------------------------------------------------------------
(* Arithmetic helpers: Python's math.floor, math.ceil on exact quotients.  *)

RECURSIVE Pow2(_)
Pow2(n) == IF n <= 0 THEN 1 ELSE 2 * Pow2(n - 1)

FloorDiv(a, b) == a \div b

CeilDiv(a, b) == -((-a) \div b)

-----------------------------------------------------------------------------
(* Dates and HHMM strings.                                                 *)

\* datetime.strptime + ist.localize: the absolute minute of a parsed local time
strptime(t) == t.d * 1440 + t.h * 60 + t.m

\* datetime.minute
MinuteOf(dt) == dt % 60

\* "%02d" of a non-negative integer below 1000, as a digit string
Fmt02(n) == IF n < 100 THEN <<n \div 10, n % 10>>
            ELSE <<n \div 100, (n \div 10) % 10, n % 10>>

\* current_time.strftime("%H%M")
strftime_HHMM(dt) == Fmt02((dt % 1440) \div 60) \o Fmt02(dt % 60)

\* int() of a digit string
RECURSIVE IntOf(_)
IntOf(s) == IF s = <<>> THEN 0
            ELSE 10 * IntOf(SubSeq(s, 1, Len(s) - 1)) + s[Len(s)]


\* utc_time = current_time.astimezone(pytz.utc): IST is UTC+05:30
astimezone_utc(dt) == dt - 330

-----------------------------------------------------------------------------
(* Request inputs.                                                         *)

\* local times a request may name: 23:15, 23:20, 23:45 of day 0 and 00:15 of
\* day 1
TimeInputs == { [d |-> 0, h |-> 22, m |-> 45],
                [d |-> 0, h |-> 23, m |-> 15], [d |-> 0, h |-> 23, m |-> 20],
                [d |-> 0, h |-> 23, m |-> 45], [d |-> 1, h |-> 0,  m |-> 15] }

\* the bbox of a request, (min_lon, min_lat, max_lon, max_lat) in geographic
\* units: valid boxes of one row of tiles, of a square of tiles and of a wide
\* strip of tiles, and boxes that are inverted in one axis or in both, or
\* degenerate
RowBoxes == { <<1, 2, 3, 3>> }
SquareBoxes == { <<1, 1, 3, 3>> }
WideBoxes == { <<3, 2, 801, 3>>, <<1, 2, 801, 3>>, <<1, 1, 801, 3>> }
InvalidBoxes == { <<3, 3, 1, 1>>, <<3, 1, 1, 3>>, <<801, 1, 1, 3>>, <<1, 3, 3, 2>>,
                  <<1, 1, 1, 1>> }
\* a strip of one tile more than the executor has workers
StripBoxes == { <<3, 2, 19, 3>> }
BoxInputs == RowBoxes \cup SquareBoxes \cup WideBoxes \cup StripBoxes \cup InvalidBoxes

Zooms == (MaxZoom - 1) .. MaxZoom

\* the request bodies drawn; a square box is requested for one time only, a
\* wide box for 23:15 or 23:20 only and at the finest zoom, a strip for 23:15
\* only and at the finest zoom
TileRequests ==
    { r \in [datetime : TimeInputs, endtime : TimeInputs,
             bbox : BoxInputs, zoom : Zooms] :
        /\ r.bbox \in SquareBoxes => r.datetime = r.endtime
        /\ r.bbox \in StripBoxes =>
              /\ r.datetime = [d |-> 0, h |-> 23, m |-> 15]
              /\ r.endtime = r.datetime
              /\ r.zoom = MaxZoom
        /\ r.bbox \in WideBoxes =>
              /\ r.datetime \in { [d |-> 0, h |-> 23, m |-> 15],
                                  [d |-> 0, h |-> 23, m |-> 20] }
              /\ r.endtime = r.datetime
              /\ r.zoom = MaxZoom }

SessionIds == 1 .. NumSessionIds

\* the request threads of the server's thread pool that run concurrently
Threads == 1 .. NumThreads

-----------------------------------------------------------------------------
(* CoordinateProjector: transformer.transform(lon, lat), EPSG:4326 to      *)
(* EPSG:3857. x is linear in the longitude; y is the strictly increasing   *)
(* Mercator ordinate, here its series lat + lat^3 / 6 cut after the cubic  *)
(* term, in the scaled units of the model.                                 *)

transform(lon, lat) == <<128 * lon, 128 * lat + lat * lat * lat>>

-----------------------------------------------------------------------------
(* TileGridPlanner, mosaic path.                                           *)

\* mpp = 156543.03 / (2 ** req.zoom), in units of the finest zoom's pixel
mpp(zoom) == Pow2(MaxZoom - zoom)

\* variant of the cap test that also refuses a grid of exactly TileCap cells
C8_MutantTooManyTiles(cols, rows) == cols * rows >= TileCap

\* the tile cap test of fetch_stitched_frames
TooManyTiles(cols, rows) == cols * rows > TileCap

\* lines 109-118: the snapped origin and the grid size
PlanGrid(bbox, zoom) ==
    LET mn == transform(bbox[1], bbox[2])
        mx == transform(bbox[3], bbox[4])
        tile_extent == TILE_SIZE_PX * mpp(zoom)
        snapped_min_x == FloorDiv(mn[1], tile_extent) * tile_extent
        snapped_min_y == FloorDiv(mn[2], tile_extent) * tile_extent
    IN  [ min_x |-> mn[1], min_y |-> mn[2], max_x |-> mx[1], max_y |-> mx[2],
          tile_extent |-> tile_extent,
          snapped_min_x |-> snapped_min_x,
          snapped_min_y |-> snapped_min_y,
          cols |-> CeilDiv(mx[1] - snapped_min_x, tile_extent),
          rows |-> CeilDiv(mx[2] - snapped_min_y, tile_extent) ]

\* range(n) has no element when n <= 0
RangeLen(n) == IF n > 0 THEN n ELSE 0

\* lines 142-148: tile_tasks, row by row
TileTasks(p) ==
    [ k \in 1 .. (RangeLen(p.rows) * RangeLen(p.cols)) |->
        LET row == (k - 1) \div p.cols
            col == (k - 1) % p.cols
            x0 == p.snapped_min_x + col * p.tile_extent
            y0 == p.snapped_min_y + row * p.tile_extent
        IN  [ col |-> col, row |-> row,
              bbox |-> <<x0, y0, x0 + p.tile_extent, y0 + p.tile_extent>> ] ]

-----------------------------------------------------------------------------
(* ConcurrentTileFetcher: one tile.                                        *)
(* A tile service answer is "ok" (2xx, a decodable image), "badimg" (2xx,  *)
(* a body that is no image), "http" (non-2xx: raise_for_status raises) or  *)
(* "neterr" (connection error or timeout). The service's answers to the    *)
(* successive GETs for one tile are a sequence of RETRIES + 1 answers, of  *)
(* which the code consumes a prefix.                                       *)

Answers == {"ok", "badimg", "http", "neterr"}

AnswerSeqs == [1 .. RETRIES + 1 -> Answers]

\* requests.get + raise_for_status raise a RequestException
RaisesRequestException(a) == a \in {"http", "neterr"}

\* variant that sleeps after every failed attempt, the last included
C5_MutantSleepsAfter(attempt, retries) == TRUE

\* line 82: the delay is slept only when another attempt follows
SleepsAfter(attempt, retries) == attempt < retries

\* line 75: the attempts of the loop
HasAttempt(attempt, retries) == attempt < retries + 1

\* lines 74-84 as a function of the service's answers: the response
\* returned ("None" for None) and the log of GETs and sleeps
RECURSIVE fetch_loop(_, _, _)
fetch_loop(answers, attempt, retries) ==
    IF ~HasAttempt(attempt, retries)
    THEN [response |-> "None", log |-> <<>>]
    ELSE IF RaisesRequestException(answers[attempt + 1])
         THEN LET rest == fetch_loop(answers, attempt + 1, retries)
              IN  [ response |-> rest.response,
                    log |-> <<"get">>
                            \o (IF SleepsAfter(attempt, retries)
                                THEN <<"sleep">> ELSE <<>>)
                            \o rest.log ]
         ELSE [response |-> answers[attempt + 1], log |-> <<"get">>]

fetch_with_retries(answers) == fetch_loop(answers, 0, RETRIES)

\* variant in which every body decodes
C6_MutantDecodeFails(body) == FALSE

\* Image.open(...).convert("RGBA") raises on a body that is no image
DecodeFails(body) == body # "ok"

\* lines 86-97: None, or the (col, row, image) triple
download_tile(task, time, answers) ==
    LET f == fetch_with_retries(answers)
    IN  IF f.response = "None" THEN [none |-> TRUE, log |-> f.log]
        ELSE IF DecodeFails(f.response) THEN [none |-> TRUE, log |-> f.log]
        ELSE [ none |-> FALSE, log |-> f.log, col |-> task.col, row |-> task.row,
               image |-> [bbox |-> task.bbox, time |-> time] ]

-----------------------------------------------------------------------------
(* The tile service as the batch of one timestamp sees it: the answers to  *)
(* every cell, and the order in which the workers complete. Every          *)
(* combination is drawn for a grid of at most MaxExhaustiveCells cells; a  *)
(* larger grid gets the same answers for every cell, completing in task    *)
(* order or in reverse task order.                                         *)

ConstSeq(a) == [i \in 1 .. RETRIES + 1 |-> a]

ThenSeq(a, b) == [i \in 1 .. RETRIES + 1 |-> IF i = 1 THEN a ELSE b]

\* answers drawn per cell in a batch: served at once, never served,
\* served on the second attempt, served a body that is no image
BatchAnswerSeqs == { ConstSeq("ok"), ConstSeq("neterr"),
                     ThenSeq("http", "ok"), ConstSeq("badimg") }

BatchAnswers(n) ==
    IF n <= MaxExhaustiveCells
    THEN [1 .. n -> BatchAnswerSeqs]
    ELSE { [k \in 1 .. n |-> a] : a \in BatchAnswerSeqs }

Injective(f) == \A i, j \in DOMAIN f : f[i] = f[j] => i = j

\* the orders in which the futures of the task indices S may complete
CompletionOrders(S, n) ==
    IF n <= MaxExhaustiveCells
    THEN { o \in [1 .. Cardinality(S) -> S] : Injective(o) }
    ELSE IF S = {} THEN { <<>> }
    ELSE { [k \in 1 .. n |-> k], [k \in 1 .. n |-> n + 1 - k] }

-----------------------------------------------------------------------------
(* MosaicAssembler.                                                        *)

\* Image.new("RGBA", (cols * TILE_SIZE_PX, rows * TILE_SIZE_PX))
NewImage(cols, rows) ==
    [size |-> <<cols * TILE_SIZE_PX, rows * TILE_SIZE_PX>>, px |-> <<>>]

\* line 161: the paste offset of the tile of cell (col, row)
PasteOffset(col, row, rows) ==
    <<col * TILE_SIZE_PX, (rows - 1 - row) * TILE_SIZE_PX>>

\* variant that places the j-th tile of the list at the j-th cell in row-major
\* order, whatever its own (col, row)
C19_MutantStitch(img, tiles, rows) ==
    LET cols == img.size[1] \div TILE_SIZE_PX
        at(j) == PasteOffset((j - 1) % cols, (j - 1) \div cols, rows)
    IN  [img EXCEPT !.px = [o \in {at(j) : j \in DOMAIN tiles} |->
                              tiles[CHOOSE j \in DOMAIN tiles : at(j) = o].image]]

\* lines 160-161: the tiles pasted in list order; what the canvas shows at an
\* offset is the last tile pasted there
Stitch(img, tiles, rows) ==
    LET at(j) == PasteOffset(tiles[j].col, tiles[j].row, rows)
        last(o) == LET J == {j \in DOMAIN tiles : at(j) = o}
                   IN  CHOOSE j \in J : \A i \in J : i <= j
    IN  [img EXCEPT !.px = [o \in {at(j) : j \in DOMAIN tiles} |-> tiles[last(o)].image]]

\* variant that saves a frame for an empty tile list too
C7_MutantSavesFrame(images) == TRUE

\* line 158: a frame is stitched and saved only for a non-empty tile list
SavesFrame(images) == images # <<>>

-----------------------------------------------------------------------------
(* SessionStore and the file system under temp_stitched/.                  *)

NoDir == [ exists |-> FALSE,          \* the session directory
           frames |-> <<>>,           \* frame_<HHMM>.png: HHMM -> saved image size
           interp_dir |-> FALSE,      \* interpolated_frames/
           interp |-> <<>>,           \* interpolated_frames/<HHMM>.png
           renamed_dir |-> FALSE,     \* interpolated_frames/renamed/
           renamed |-> <<>>,          \* interpolated_frames/renamed/<n>.png
           tmp_dir |-> FALSE,         \* tmp_rife/
           tmp |-> <<>>,              \* tmp_rife/0.png, 1.png
           output |-> <<>>,           \* tmp_rife/output/<n>.png
           video |-> FALSE ]          \* interpolated_video.mp4

NoPlan == [ min_x |-> 0, min_y |-> 0, max_x |-> 0, max_y |-> 0,
            tile_extent |-> 0, snapped_min_x |-> 0, snapped_min_y |-> 0,
            cols |-> 0, rows |-> 0 ]

NoRequest == [endpoint |-> "none"]

NoResponse == [status |-> 0, detail |-> "none"]

NoTile == [ state |-> "off", answers |-> <<>>, attempt |-> 0, log |-> <<>>,
            response |-> "None", result |-> "none" ]

\* no executor exists outside the with block of line 151
NoPool == [ state |-> "off" ]

\* no request thread and no shutdown handler is running
NoConc == [ threads |-> [t \in Threads |-> [pc |-> "idle", session_id |-> 0]],
            handler |-> [pc |-> "idle", todo |-> {}, used |-> 0, left |-> {}] ]

\* generate_tiles has not been called
NoGrid == [ state |-> "off" ]

\* fetch_tiles_concurrently has not been called
NoBatch == [ state |-> "off" ]

\* raise HTTPException(status_code, detail)
HTTPException(status, detail) == [status |-> status, detail |-> detail]

\* os.makedirs(temp_dir, exist_ok=True)
MakeSessionDir(d) == [d EXCEPT !.exists = TRUE]

Init ==
    /\ pc = "idle"
    /\ req = NoRequest
    /\ response = NoResponse
    /\ TEMP_SESSION_DIRS = {}
    /\ fs = [s \in SessionIds |-> NoDir]
    /\ session_id = 0
    /\ plan = NoPlan
    /\ current_time = 0
    /\ end_dt = 0
    /\ steps = <<>>
    /\ net = <<>>
    /\ tile_images = <<>>
    /\ frames = <<>>
    /\ pair = 0
    /\ moved = 0
    /\ tools = <<>>
    /\ served = [mosaic |-> 0, video |-> 0]
    /\ tile = NoTile
    /\ taken = [s \in SessionIds |-> <<>>]
    /\ pool = NoPool
    /\ conc = NoConc
    /\ grid = NoGrid
    /\ batch = NoBatch

-----------------------------------------------------------------------------
(* POST /fetch-stitched-frames.                                            *)

\* line 104
BadMinute(start_dt, end) ==
    MinuteOf(start_dt) \notin {15, 45} \/ MinuteOf(end) \notin {15, 45}

\* variant that also refuses start equal to end
C9_MutantStartAfterEnd(start_dt, end) == start_dt >= end

\* line 106
StartAfterEnd(start_dt, end) == start_dt > end

MosaicLocalsUnchanged ==
    UNCHANGED <<TEMP_SESSION_DIRS, fs, session_id, plan, current_time, end_dt>>

VideoLocalsUnchanged == UNCHANGED <<frames, pair, moved, tools>>

\* lines 100-128: validation, grid planning, session creation
FetchStitchedFrames ==
    /\ pc = "idle"
    /\ served.mosaic < MaxMosaicRequests
    /\ \E r \in TileRequests :
        LET start_dt == strptime(r.datetime)
            end == strptime(r.endtime)
            p == PlanGrid(r.bbox, r.zoom)
        IN  /\ req' = [endpoint |-> "fetch-stitched-frames", body |-> r]
            /\ served' = [served EXCEPT !.mosaic = @ + 1]
            /\ steps' = <<>>
            /\ net' = <<>>
            /\ tile_images' = <<>>
            /\ IF BadMinute(start_dt, end)
               THEN /\ response' = HTTPException(400, "Only :15 or :45 minutes allowed.")
                    /\ pc' = "idle"
                    /\ MosaicLocalsUnchanged
               ELSE IF StartAfterEnd(start_dt, end)
               THEN /\ response' = HTTPException(400, "Start time must be before end time.")
                    /\ pc' = "idle"
                    /\ MosaicLocalsUnchanged
               ELSE IF TooManyTiles(p.cols, p.rows)
               THEN /\ response' = HTTPException(400, "Too many tiles requested.")
                    /\ pc' = "idle"
                    /\ MosaicLocalsUnchanged
               ELSE \E id \in SessionIds :
                    /\ session_id' = id
                    /\ fs' = [fs EXCEPT ![id] = MakeSessionDir(@)]
                    /\ TEMP_SESSION_DIRS' = TEMP_SESSION_DIRS \cup {id}
                    /\ plan' = p
                    /\ current_time' = start_dt
                    /\ end_dt' = end
                    /\ response' = NoResponse
                    /\ pc' = "fetch_loop"
    /\ VideoLocalsUnchanged
    /\ UNCHANGED <<tile, taken, pool, conc, grid, batch>>

\* line 129
LoopContinues(now, end) == now <= end

\* variant that appends every result, None included
C4_MutantCollected(result) == TRUE

\* line 155: a result that is None is not collected
Collected(result) == ~result.none

\* lines 129-156: the head of one iteration of the while loop, the tile
\* batch of one timestamp; the with block ends when every future is done
FetchBatch ==
    /\ pc = "fetch_loop"
    /\ LoopContinues(current_time, end_dt)
    /\ \E tile_tasks \in {TileTasks(plan)} :
       \E answers \in BatchAnswers(Len(tile_tasks)) :
       \E results \in { [k \in 1 .. Len(tile_tasks) |->
                          download_tile(tile_tasks[k], astimezone_utc(current_time),
                                        answers[k])] } :
       \E done \in { {k \in 1 .. Len(tile_tasks) : Collected(results[k])} } :
       \E order \in CompletionOrders(done, Len(tile_tasks)) :
          /\ net' = [k \in 1 .. Len(tile_tasks) |->
                       [ col |-> tile_tasks[k].col, row |-> tile_tasks[k].row,
                         answers |-> answers[k], log |-> results[k].log ]]
          /\ tile_images' = [j \in 1 .. Cardinality(done) |-> results[order[j]]]
    /\ pc' = "stitch"
    /\ UNCHANGED <<req, response, TEMP_SESSION_DIRS, fs, session_id, plan,
                   current_time, end_dt, steps, served, tile, taken, pool, conc, grid, batch>>
    /\ VideoLocalsUnchanged

\* lines 158-164: the mosaic of the timestamp is stitched and saved, and the
\* loop steps to the next timestamp (the batch's locals are dead from here)
StitchAndSave ==
    /\ pc = "stitch"
    /\ LET timestamp_str == strftime_HHMM(current_time)
           stitched_img == Stitch(NewImage(plan.cols, plan.rows), tile_images,
                                  plan.rows)
       IN  /\ IF SavesFrame(tile_images)
              THEN /\ fs' = [fs EXCEPT ![session_id].frames =
                               (timestamp_str :> stitched_img.size) @@ @]
                   /\ taken' = [taken EXCEPT ![session_id] =
                                  (timestamp_str :> current_time) @@ @]
              ELSE UNCHANGED <<fs, taken>>
           /\ steps' = Append(steps, [ts |-> timestamp_str, tiles |-> Len(tile_images)])
    /\ current_time' = current_time + TIME_INTERVAL_MINUTES
    /\ net' = <<>>
    /\ tile_images' = <<>>
    /\ pc' = "fetch_loop"
    /\ UNCHANGED <<req, response, TEMP_SESSION_DIRS, session_id, plan, end_dt,
                   served, tile, pool, conc, grid, batch>>
    /\ VideoLocalsUnchanged

\* lines 166-170
FetchReturn ==
    /\ pc = "fetch_loop"
    /\ ~LoopContinues(current_time, end_dt)
    /\ response' = [ status |-> 200, detail |-> "Frames stitched successfully",
                     session_id |-> session_id ]
    /\ pc' = "idle"
    /\ net' = <<>>
    /\ tile_images' = <<>>
    /\ session_id' = 0
    /\ plan' = NoPlan
    /\ current_time' = 0
    /\ end_dt' = 0
    /\ UNCHANGED <<req, TEMP_SESSION_DIRS, fs, steps, served, tile, taken, pool, conc, grid, batch>>
    /\ VideoLocalsUnchanged

-----------------------------------------------------------------------------
(* FrameSequenceOrchestrator: POST /interpolate-and-generate-video.        *)

\* lines 184-186
timestamp_to_minutes(ts) ==
    IntOf(SubSeq(ts, 1, 2)) * 60 + IntOf(SubSeq(ts, 3, Len(ts)))

\* lines 188-189
minutes_to_timestamp(mins) == Fmt02(mins \div 60) \o Fmt02(mins % 60)

\* line 182: the sort key of frame_<HHMM>.png
FrameKey(label) == IntOf(SubSeq(label, 1, 4))

\* sorted(names, key=...): the names in ascending order of key[name] (Python's sort
\* is stable, and the keys of distinct four-digit names differ)
RECURSIVE SortedBy(_, _)
SortedBy(S, key) ==
    IF S = {} THEN <<>>
    ELSE LET least == CHOOSE x \in S : \A y \in S : key[x] <= key[y]
         IN  <<least>> \o SortedBy(S \ {least}, key)

\* variant whose loop ends one pair early
C17_MutantHasPair(i, fr) == i < Len(fr) - 2

\* line 194: range(len(frames) - 1)
HasPair(i, fr) == i < Len(fr) - 1

\* variant that labels output i one minute late
C2_MutantNewMin(start_min, i) == start_min + i + 1

\* line 217
NewMin(start_min, i) == start_min + i

\* lines 204-210: the interpolator's outputs 0.png .. 31.png for a staged pair
RifeOutput(staged) ==
    [k \in 0 .. RifeOutputs - 1 |-> [a |-> staged[1], b |-> staged[2], k |-> k]]

\* variant that sorts the names in descending order
C16_MutantInterpKey(label) == 0 - IntOf(label)

\* line 226: the sort key of <HHMM>.png
InterpKey(label) == IntOf(label)

\* lines 173-182: the directories are made and the frames listed
InterpolateAndGenerateVideo ==
    /\ pc = "idle"
    /\ served.video < MaxVideoRequests
    /\ \E sid \in SessionIds :
        /\ req' = [ endpoint |-> "interpolate-and-generate-video",
                    body |-> [session_id |-> sid],
                    dir_existed |-> fs[sid].exists ]
        /\ session_id' = sid
        /\ fs' = [fs EXCEPT ![sid].exists = TRUE, ![sid].interp_dir = TRUE]
        /\ frames' = SortedBy(DOMAIN fs[sid].frames,
                            [f \in DOMAIN fs[sid].frames |-> FrameKey(f)])
    /\ served' = [served EXCEPT !.video = @ + 1]
    /\ pair' = 0
    /\ moved' = 0
    /\ tools' = <<>>
    /\ response' = NoResponse
    /\ steps' = <<>>
    /\ pc' = "pairs"
    /\ UNCHANGED <<TEMP_SESSION_DIRS, plan, current_time, end_dt, net, tile_images,
                   tile, taken, pool, conc, grid, batch>>

VideoFrame == UNCHANGED <<req, TEMP_SESSION_DIRS, session_id, plan, current_time,
                          end_dt, steps, net, tile_images, served, tile, taken,
                          pool, conc, grid, batch>>

\* lines 194-202: the next pair is staged into tmp_rife
StagePair ==
    /\ pc = "pairs"
    /\ HasPair(pair, frames)
    /\ fs' = [fs EXCEPT ![session_id].tmp_dir = TRUE,
                        ![session_id].tmp = <<frames[pair + 1], frames[pair + 2]>>]
    /\ pc' = "rife"
    /\ UNCHANGED <<response, frames, pair, moved, tools>>
    /\ VideoFrame

\* variant that skips a pair whose interpolation failed and goes on
C15_MutantRunRife ==
    /\ pc = "rife"
    /\ tools' = Append(tools, "rife")
    /\ \/ /\ fs' = [fs EXCEPT ![session_id].output = RifeOutput(fs[session_id].tmp)]
          /\ moved' = 0
          /\ pc' = "move"
          /\ UNCHANGED <<response, pair>>
       \/ /\ fs' = [fs EXCEPT ![session_id].tmp_dir = FALSE, ![session_id].tmp = <<>>]
          /\ pair' = pair + 1
          /\ pc' = "pairs"
          /\ UNCHANGED <<response, moved>>
    /\ UNCHANGED frames
    /\ VideoFrame

\* lines 204-212: the interpolator runs on the staged pair
RunRife ==
    /\ pc = "rife"
    /\ tools' = Append(tools, "rife")
    /\ \/ /\ fs' = [fs EXCEPT ![session_id].output = RifeOutput(fs[session_id].tmp)]
          /\ moved' = 0
          /\ pc' = "move"
          /\ UNCHANGED response
       \/ /\ response' = HTTPException(500, "RIFE interpolation failed")
          /\ pc' = "idle"
          /\ UNCHANGED <<fs, moved>>
    /\ UNCHANGED <<frames, pair>>
    /\ VideoFrame

\* lines 214-220: one output is moved to its timestamped name
MoveOutput ==
    /\ pc = "move"
    /\ moved < RifeOutputs
    /\ LET t1 == SubSeq(frames[pair + 1], 1, 4)
           start_min == timestamp_to_minutes(t1)
           ts == minutes_to_timestamp(NewMin(start_min, moved))
           out == fs[session_id].output
       IN  fs' = [fs EXCEPT
                    ![session_id].interp = (ts :> out[moved]) @@ @,
                    ![session_id].output =
                        [k \in (DOMAIN out) \ {moved} |-> out[k]]]
    /\ moved' = moved + 1
    /\ UNCHANGED <<pc, response, frames, pair, tools>>
    /\ VideoFrame

\* lines 222-223: the scratch directory is discarded
DiscardScratch ==
    /\ pc = "move"
    /\ moved >= RifeOutputs
    /\ fs' = [fs EXCEPT ![session_id].tmp_dir = FALSE,
                        ![session_id].tmp = <<>>,
                        ![session_id].output = <<>>]
    /\ pair' = pair + 1
    /\ pc' = "pairs"
    /\ UNCHANGED <<response, frames, moved, tools>>
    /\ VideoFrame

\* lines 225-231: the timestamped frames are copied to 0.png, 1.png, ...;
\* int() of the name of a leftover renamed/ directory raises ValueError
Renumber ==
    /\ pc = "pairs"
    /\ ~HasPair(pair, frames)
    /\ IF fs[session_id].renamed_dir
       THEN /\ response' = HTTPException(500, "Internal Server Error")
            /\ pc' = "idle"
            /\ UNCHANGED fs
       ELSE /\ \E dir \in {fs[session_id].interp} :
               \E sorted_imgs \in {SortedBy(DOMAIN dir, [f \in DOMAIN dir |-> InterpKey(f)])} :
                   fs' = [fs EXCEPT
                            ![session_id].renamed_dir = TRUE,
                            ![session_id].renamed =
                                [i \in 0 .. Len(sorted_imgs) - 1 |->
                                    dir[sorted_imgs[i + 1]]]]
            /\ pc' = "encode"
            /\ UNCHANGED response
    /\ UNCHANGED <<frames, pair, moved, tools>>
    /\ VideoFrame

\* the exits of the encoder: it cannot encode a directory with no 0.png
EncoderOutcomes(dir) ==
    IF 0 \in DOMAIN dir THEN {"ok", "failed", "not found"}
    ELSE {"failed", "not found"}

\* lines 233-254: the encoder runs over the renumbered frames
Encode ==
    /\ pc = "encode"
    /\ tools' = Append(tools, "ffmpeg")
    /\ \E outcome \in EncoderOutcomes(fs[session_id].renamed) :
        IF outcome = "ok"
        THEN /\ fs' = [fs EXCEPT ![session_id].video = TRUE,
                                 ![session_id].renamed_dir = FALSE,
                                 ![session_id].renamed = <<>>]
             /\ response' = [ status |-> 200,
                              detail |-> "Interpolation and video generation complete",
                              video_path |-> session_id ]
        ELSE /\ response' = HTTPException(500,
                    IF outcome = "failed" THEN "FFmpeg failed"
                    ELSE "FFmpeg not found. Set FFMPEG_PATH correctly.")
             /\ UNCHANGED fs
    /\ pc' = "idle"
    /\ UNCHANGED <<frames, pair, moved>>
    /\ VideoFrame

-----------------------------------------------------------------------------
(* One download_tile call, statement by statement.                         *)

TileFrame == UNCHANGED <<pc, req, response, TEMP_SESSION_DIRS, fs, session_id, plan,
                         current_time, end_dt, steps, net, tile_images, frames,
                         pair, moved, tools, served, taken, pool, conc, grid, batch>>

\* download_tile is called for a tile whose GETs the service will answer
\* with `answers`
TileCall ==
    /\ tile.state = "off"
    /\ \E answers \in AnswerSeqs :
        tile' = [NoTile EXCEPT !.state = "loop", !.answers = answers]
    /\ TileFrame

\* lines 75-79: an attempt; the response is returned unless the GET raises
TileGet ==
    /\ tile.state = "loop"
    /\ HasAttempt(tile.attempt, RETRIES)
    /\ LET a == tile.answers[tile.attempt + 1]
       IN  IF RaisesRequestException(a)
           THEN tile' = [tile EXCEPT !.log = Append(@, "get"), !.state = "except"]
           ELSE tile' = [tile EXCEPT !.log = Append(@, "get"), !.state = "returned",
                                     !.response = a]
    /\ TileFrame

\* lines 80-83: the except clause
TileExcept ==
    /\ tile.state = "except"
    /\ tile' = [tile EXCEPT
                  !.log = IF SleepsAfter(tile.attempt, RETRIES)
                          THEN Append(@, "sleep") ELSE @,
                  !.attempt = @ + 1,
                  !.state = "loop"]
    /\ TileFrame

\* line 84: the loop is exhausted
TileGiveUp ==
    /\ tile.state = "loop"
    /\ ~HasAttempt(tile.attempt, RETRIES)
    /\ tile' = [tile EXCEPT !.state = "returned", !.response = "None"]
    /\ TileFrame

\* lines 90-97: None for no response and for a body that does not decode
TileDecode ==
    /\ tile.state = "returned"
    /\ tile' = [tile EXCEPT
                  !.state = "done",
                  !.result = IF tile.response = "None" THEN "None"
                             ELSE IF DecodeFails(tile.response) THEN "None"
                             ELSE "tile"]
    /\ TileFrame

-----------------------------------------------------------------------------
(* The batch of one timestamp with its ThreadPoolExecutor, step by step    *)
(* (lines 142-156): the main thread submits the tasks and then collects    *)
(* the futures as they complete, while the workers take the queued tasks   *)
(* in order. Batches of at most MaxPoolCells cells are run this way; the   *)
(* service answers the first MaxPoolImages cells alike and never serves    *)
(* the others.                                                             *)

PoolAnswers(n) ==
    { [k \in 1 .. n |-> IF k <= MaxPoolImages THEN a ELSE ConstSeq("neterr")] :
        a \in BatchAnswerSeqs }

\* the tasks a worker is executing
Running == (1 .. pool.started) \ pool.finished

\* variant of an executor with no limit of workers
C18_MutantHasIdleWorker(running) == TRUE

\* line 151: max_workers=MAX_WORKERS
HasIdleWorker(running) == Cardinality(running) < MAX_WORKERS

PoolFrame == UNCHANGED <<req, response, TEMP_SESSION_DIRS, fs, session_id, plan,
                         current_time, end_dt, steps, served, tile, taken, conc, grid, batch>>

\* lines 129-151: the tasks are enumerated and the executor is made
PoolEnter ==
    /\ pc = "fetch_loop"
    /\ LoopContinues(current_time, end_dt)
    /\ Len(TileTasks(plan)) <= MaxPoolCells
    /\ \E answers \in PoolAnswers(Len(TileTasks(plan))) :
        pool' = [ state |-> "submit", answers |-> answers, submitted |-> 0,
                  started |-> 0, finished |-> {}, yielded |-> {} ]
    /\ tile_images' = <<>>
    /\ net' = <<>>
    /\ pc' = "batch"
    /\ PoolFrame
    /\ VideoLocalsUnchanged

\* line 152: the next task is submitted; after the last, as_completed starts
PoolSubmit ==
    /\ pc = "batch"
    /\ pool.state = "submit"
    /\ IF pool.submitted < Len(TileTasks(plan))
       THEN pool' = [pool EXCEPT !.submitted = @ + 1]
       ELSE pool' = [pool EXCEPT !.state = "collect"]
    /\ UNCHANGED <<pc, net, tile_images>>
    /\ PoolFrame
    /\ VideoLocalsUnchanged

\* a worker takes the task at the head of the queue
WorkerStart ==
    /\ pc = "batch"
    /\ pool.started < pool.submitted
    /\ HasIdleWorker(Running)
    /\ pool' = [pool EXCEPT !.started = @ + 1]
    /\ UNCHANGED <<pc, net, tile_images>>
    /\ PoolFrame
    /\ VideoLocalsUnchanged

\* download_tile returns in a worker
WorkerFinish ==
    /\ pc = "batch"
    /\ \E k \in Running : pool' = [pool EXCEPT !.finished = @ \cup {k}]
    /\ UNCHANGED <<pc, net, tile_images>>
    /\ PoolFrame
    /\ VideoLocalsUnchanged

\* lines 153-156: as_completed yields a finished future
PoolCollect ==
    /\ pc = "batch"
    /\ pool.state = "collect"
    /\ \E k \in pool.finished \ pool.yielded :
       \E result \in { download_tile(TileTasks(plan)[k], astimezone_utc(current_time),
                                     pool.answers[k]) } :
          /\ pool' = [pool EXCEPT !.yielded = @ \cup {k}]
          /\ tile_images' = IF Collected(result) THEN Append(tile_images, result)
                            ELSE tile_images
    /\ UNCHANGED <<pc, net>>
    /\ PoolFrame
    /\ VideoLocalsUnchanged

\* the loop of line 153 ends with the last future and the with block exits
PoolExit ==
    /\ pc = "batch"
    /\ pool.state = "collect"
    /\ pool.yielded = 1 .. Len(TileTasks(plan))
    /\ \E tile_tasks \in {TileTasks(plan)} :
        net' = [k \in 1 .. Len(tile_tasks) |->
                  [ col |-> tile_tasks[k].col, row |-> tile_tasks[k].row,
                    answers |-> pool.answers[k],
                    log |-> fetch_with_retries(pool.answers[k]).log ]]
    /\ pool' = NoPool
    /\ pc' = "stitch"
    /\ UNCHANGED tile_images
    /\ PoolFrame
    /\ VideoLocalsUnchanged

-----------------------------------------------------------------------------
(* Session creation in concurrent request threads (fetch_stitched_frames   *)
(* is a def endpoint, run in the server's thread pool) and the shutdown    *)
(* handler cleanup_temp_sessions, statement by statement. Neither takes a  *)
(* lock; a statement on the set TEMP_SESSION_DIRS is atomic.               *)

ConcFrame == UNCHANGED <<pc, req, response, session_id, plan, current_time, end_dt,
                         steps, net, tile_images, frames, pair, moved, tools,
                         served, tile, pool, grid, batch>>

\* the time step of the one frame a concurrent request saves
ConcTime == strptime([d |-> 0, h |-> 23, m |-> 15])

\* the sessions whose registration (line 126) has been executed
Registered ==
    { conc.threads[t].session_id :
        t \in {u \in Threads : conc.threads[u].pc \in {"registered", "done", "failed"}} }

\* lines 123-125: the identifier is drawn and the directory made
ThreadCreate(t) ==
    /\ conc.threads[t].pc = "idle"
    /\ \E id \in SessionIds :
        /\ conc' = [conc EXCEPT !.threads[t] = [pc |-> "made", session_id |-> id]]
        /\ fs' = [fs EXCEPT ![id] = MakeSessionDir(@)]
    /\ UNCHANGED <<TEMP_SESSION_DIRS, taken>>
    /\ ConcFrame

\* line 126
ThreadRegister(t) ==
    /\ conc.threads[t].pc = "made"
    /\ TEMP_SESSION_DIRS' = TEMP_SESSION_DIRS \cup {conc.threads[t].session_id}
    /\ conc' = [conc EXCEPT !.threads[t].pc = "registered"]
    /\ UNCHANGED <<fs, taken>>
    /\ ConcFrame

\* line 162 and the return: the frame is saved into the session directory;
\* the save raises when the directory is gone
ThreadSave(t) ==
    /\ conc.threads[t].pc = "registered"
    /\ LET id == conc.threads[t].session_id
           label == strftime_HHMM(ConcTime)
       IN  IF fs[id].exists
           THEN /\ fs' = [fs EXCEPT ![id].frames = (label :> NewImage(1, 1).size) @@ @]
                /\ taken' = [taken EXCEPT ![id] = (label :> ConcTime) @@ @]
                /\ conc' = [conc EXCEPT !.threads[t].pc = "done"]
           ELSE /\ conc' = [conc EXCEPT !.threads[t].pc = "failed"]
                /\ UNCHANGED <<fs, taken>>
    /\ UNCHANGED TEMP_SESSION_DIRS
    /\ ConcFrame

\* line 258: iter(TEMP_SESSION_DIRS); the iterator remembers the set's size
CleanupStart ==
    /\ conc.handler.pc = "idle"
    /\ conc' = [conc EXCEPT !.handler.pc = "iter",
                            !.handler.todo = TEMP_SESSION_DIRS,
                            !.handler.used = Cardinality(TEMP_SESSION_DIRS)]
    /\ UNCHANGED <<TEMP_SESSION_DIRS, fs, taken>>
    /\ ConcFrame

\* the set iterator raises RuntimeError when the set's size has changed
SetChangedSize(used) == Cardinality(TEMP_SESSION_DIRS) # used

\* lines 258-260: the next path of the iteration is removed if it exists
CleanupNext ==
    /\ conc.handler.pc = "iter"
    /\ IF SetChangedSize(conc.handler.used)
       THEN /\ conc' = [conc EXCEPT !.handler.pc = "raised"]
            /\ UNCHANGED <<fs, taken>>
       ELSE IF conc.handler.todo = {}
       THEN /\ conc' = [conc EXCEPT !.handler.pc = "clear"]
            /\ UNCHANGED <<fs, taken>>
       ELSE \E path \in conc.handler.todo :
            /\ conc' = [conc EXCEPT !.handler.todo = @ \ {path}]
            /\ IF fs[path].exists
               THEN /\ fs' = [fs EXCEPT ![path] = NoDir]
                    /\ taken' = [taken EXCEPT ![path] = <<>>]
               ELSE UNCHANGED <<fs, taken>>
    /\ UNCHANGED TEMP_SESSION_DIRS
    /\ ConcFrame

\* line 261; left records the registered directories that exist on completion
CleanupClear ==
    /\ conc.handler.pc = "clear"
    /\ TEMP_SESSION_DIRS' = {}
    /\ conc' = [conc EXCEPT !.handler.pc = "done",
                            !.handler.left = {id \in Registered : fs[id].exists}]
    /\ UNCHANGED <<fs, taken>>
    /\ ConcFrame

-----------------------------------------------------------------------------
(* Python floats (src/raw_data_fetcher.py, generate_tiles).                *)
(* The archival planner truncates a quotient of rounded values, so the     *)
(* rounding of binary floating point is modelled.  A float is the integer  *)
(* count of 2^-FracBits it amounts to and keeps FloatBits significant bits *)
(* (Python keeps 53); every operation rounds its exact result to the       *)
(* nearest such value, ties to the even mantissa.  Lengths are counted in  *)
(* units of 2^MetreBits metres (MetreBits >= FracBits): scaling by a power *)
(* of two commutes with the rounding.                                      *)

\* the float 1.0
One == Pow2(FracBits)

\* metres per count of 2^-FracBits units of length
MetresPerCount == Pow2(MetreBits - FracBits)

Abs(x) == IF x < 0 THEN -x ELSE x

\* the distance between neighbouring floats at the magnitude of n / d
RECURSIVE Spacing(_, _, _)
Spacing(n, d, s) ==
    IF Abs(n) < Pow2(FloatBits) * s * d THEN s ELSE Spacing(n, d, 2 * s)

\* the integer nearest to n / d, a tie going to the even one
RoundHalfEven(n, d) ==
    LET q == FloorDiv(n, d)
        r == n - q * d
    IN  IF 2 * r < d THEN q
        ELSE IF 2 * r > d THEN q + 1
        ELSE IF q % 2 = 0 THEN q ELSE q + 1

\* the float nearest to n / d counts of 2^-FracBits
Float(n, d) == LET s == Spacing(n, d, 1) IN s * RoundHalfEven(n, d * s)

\* float(k) of an int k
float(k) == Float(k * One, 1)

\* a / b
truediv(a, b) == Float(a * One, b)

\* a * b
mul(a, b) == Float(a * b, One)

\* a + b
add(a, b) == Float(a + b, 1)

\* a - b
sub(a, b) == Float(a - b, 1)

\* math.floor
math_floor(a) == FloorDiv(a, One)

\* math.ceil
math_ceil(a) == CeilDiv(a, One)

\* int(a): truncation towards zero
int(a) == IF a >= 0 THEN FloorDiv(a, One) ELSE CeilDiv(a, One)

\* a literal of n metres
Metres(n) == Float(n, MetresPerCount)

\* the literal 156543.03
InitialResolution == Float(15654303, 100 * MetresPerCount)

-----------------------------------------------------------------------------
(* TileGridPlanner, archival path (src/raw_data_fetcher.py).               *)

\* TILE_PX * 156543.03 / (2 ** zoom)
get_tile_size_m(zoom) ==
    truediv(mul(float(TILE_PX), InitialResolution), float(Pow2(zoom)))

\* the configured area, its literals to the metre
INDIA_BBOX == <<Metres(7591289), Metres(886131), Metres(10847229), Metres(4218650)>>

\* planar coordinates a box is drawn from
GridCoords ==
    {Metres(k * CoordStep) : k \in -1 .. MaxCoord} \cup {INDIA_BBOX[i] : i \in 1 .. 4}

\* the boxes with minX < maxX and minY < maxY
GridBoxes ==
    { b \in GridCoords \X GridCoords \X GridCoords \X GridCoords :
        b[1] < b[3] /\ b[2] < b[4] }

\* the zoom levels planned for
GridZooms == (ZOOM_LEVEL - 2) .. ZOOM_LEVEL

snap_bbox_to_tile_grid(minx, miny, maxx, maxy, tile_size) ==
    << mul(float(math_floor(truediv(minx, tile_size))), tile_size),
       mul(float(math_floor(truediv(miny, tile_size))), tile_size),
       mul(float(math_ceil(truediv(maxx, tile_size))), tile_size),
       mul(float(math_ceil(truediv(maxy, tile_size))), tile_size) >>

\* lines 116-123 on the snapped box s: x is the outer loop, y the inner one
tiles_of(s, tile_size) ==
    LET nx == RangeLen(int(truediv(sub(s[3], s[1]), tile_size)))
        ny == RangeLen(int(truediv(sub(s[4], s[2]), tile_size)))
    IN  [ k \in 1 .. (nx * ny) |->
            LET x == (k - 1) \div ny
                y == (k - 1) % ny
                x0 == add(s[1], mul(float(x), tile_size))
                y0 == add(s[2], mul(float(y), tile_size))
            IN  [ x |-> x, y |-> y,
                  bbox |-> <<x0, y0, add(x0, tile_size), add(y0, tile_size)>> ] ]

generate_tiles(minx, miny, maxx, maxy, tile_size) ==
    tiles_of(snap_bbox_to_tile_grid(minx, miny, maxx, maxy, tile_size), tile_size)

\* generate_tiles is called on a box
GenerateTiles ==
    /\ grid.state = "off"
    /\ \E bbox \in GridBoxes, zoom \in GridZooms :
        \E tile_size \in {get_tile_size_m(zoom)} :
            grid' = [ state |-> "archival", bbox |-> bbox, tile_size |-> tile_size,
                      tiles |-> generate_tiles(bbox[1], bbox[2], bbox[3], bbox[4],
                                               tile_size) ]
    /\ UNCHANGED <<pc, req, response, TEMP_SESSION_DIRS, fs, session_id, plan,
                   current_time, end_dt, steps, net, tile_images, frames, pair,
                   moved, tools, served, tile, taken, pool, conc, batch>>

-----------------------------------------------------------------------------
(* The archival batch (src/raw_data_fetcher.py, fetch_tiles_concurrently), *)
(* step by step.  Each submitted tile is one wrapped_fetch call run by a   *)
(* worker thread; success_count += 1 is a load and a store of the shared   *)
(* variable with no lock around them, so the two are separate steps.       *)

\* what one fetch_and_save_tile call meets: status 200 and an image that is
\* saved, another status, an exception (request, decoding or saving) that
\* the except clause logs, or an exception whose logging raises as well
\* (fetch.log cannot be written)
FetchOutcomes == {"saved", "status", "exception", "unlogged"}

\* the tiles a batch is called with, by their outcomes
BatchInputs == UNION { [1 .. n -> FetchOutcomes] : n \in 1 .. MaxBatchTiles }

\* lines 175-189: the except clause swallows every exception of the try
\* block; only an exception raised by the clause itself leaves the function
Raises(outcome) == outcome = "unlogged"

\* lines 181-185: the image is saved only when the status is 200 and it decodes
Saves(outcome) == outcome = "saved"

\* the wrapped_fetch calls a worker thread is running
BatchRunning == {k \in DOMAIN batch.at : batch.at[k] \notin {"queued", "done"}}

BatchFrame == UNCHANGED <<pc, req, response, TEMP_SESSION_DIRS, fs, session_id, plan,
                          current_time, end_dt, steps, net, tile_images, frames, pair,
                          moved, tools, served, tile, taken, pool, conc, grid>>

\* lines 192-204: the counters are zeroed and every tile is submitted
BatchSubmit ==
    /\ batch.state = "off"
    /\ \E tiles \in BatchInputs :
        batch' = [ state |-> "running",
                   tiles |-> tiles,
                   at |-> [k \in DOMAIN tiles |-> "queued"],
                   saved |-> {},
                   loaded |-> [k \in DOMAIN tiles |-> 0],
                   success_count |-> 0,
                   failure_count |-> 0,
                   Downloaded |-> 0,
                   Failed |-> 0 ]
    /\ BatchFrame

\* a free worker thread takes a queued wrapped_fetch call
BatchWorkerStart(k) ==
    /\ batch.state = "running"
    /\ k \in DOMAIN batch.at
    /\ batch.at[k] = "queued"
    /\ Cardinality(BatchRunning) < FETCHER_MAX_WORKERS
    /\ batch' = [batch EXCEPT !.at[k] = "called"]
    /\ BatchFrame

\* line 198: fetch_and_save_tile runs and ends
BatchFetch(k) ==
    /\ batch.state = "running"
    /\ k \in DOMAIN batch.at
    /\ batch.at[k] = "called"
    /\ batch' = [batch EXCEPT
                   !.at[k] = IF Raises(batch.tiles[k]) THEN "raised" ELSE "returned",
                   !.saved = IF Saves(batch.tiles[k]) THEN @ \cup {k} ELSE @]
    /\ BatchFrame

\* lines 199, 201: the shared counter is loaded
BatchLoad(k) ==
    /\ batch.state = "running"
    /\ k \in DOMAIN batch.at
    /\ batch.at[k] \in {"returned", "raised"}
    /\ batch' = [batch EXCEPT
                   !.at[k] = IF batch.at[k] = "returned"
                             THEN "add_success" ELSE "add_failure",
                   !.loaded[k] = IF batch.at[k] = "returned"
                                 THEN batch.success_count ELSE batch.failure_count]
    /\ BatchFrame

\* lines 199, 201: the loaded value plus one is stored
BatchStore(k) ==
    /\ batch.state = "running"
    /\ k \in DOMAIN batch.at
    /\ batch.at[k] \in {"add_success", "add_failure"}
    /\ batch' = [batch EXCEPT
                   !.at[k] = "done",
                   !.success_count = IF batch.at[k] = "add_success"
                                     THEN batch.loaded[k] + 1 ELSE @,
                   !.failure_count = IF batch.at[k] = "add_failure"
                                     THEN batch.loaded[k] + 1 ELSE @]
    /\ BatchFrame

\* lines 206-212: every future is complete; the counts are logged
BatchReport ==
    /\ batch.state = "running"
    /\ \A k \in DOMAIN batch.at : batch.at[k] = "done"
    /\ batch' = [batch EXCEPT
                   !.state = "reported",
                   !.Downloaded = batch.success_count,
                   !.Failed = Len(batch.tiles) - batch.success_count]
    /\ BatchFrame

-----------------------------------------------------------------------------
(* Specifications.                                                         *)

\* the archival grid planner as a pure function of a planar box
NextGrid == GenerateTiles

SpecGrid == Init /\ [][NextGrid]_vars

\* one batch of the archival fetcher, its worker threads interleaved
NextBatch ==
    \/ BatchSubmit
    \/ \E k \in 1 .. MaxBatchTiles : BatchWorkerStart(k)
    \/ \E k \in 1 .. MaxBatchTiles : BatchFetch(k)
    \/ \E k \in 1 .. MaxBatchTiles : BatchLoad(k)
    \/ \E k \in 1 .. MaxBatchTiles : BatchStore(k)
    \/ BatchReport

SpecBatch == Init /\ [][NextBatch]_vars

\* the service: requests served one at a time
Next ==
    \/ FetchStitchedFrames
    \/ FetchBatch
    \/ StitchAndSave
    \/ FetchReturn
    \/ InterpolateAndGenerateVideo
    \/ StagePair
    \/ RunRife
    \/ MoveOutput
    \/ DiscardScratch
    \/ Renumber
    \/ Encode

Spec == Init /\ [][Next]_vars

\* one tile of a batch, statement by statement
NextTile == TileCall \/ TileGet \/ TileExcept \/ TileGiveUp \/ TileDecode

SpecTile == Init /\ [][NextTile]_vars

\* the mosaic request with its batches run worker by worker
NextPool ==
    \/ FetchStitchedFrames
    \/ PoolEnter
    \/ PoolSubmit
    \/ WorkerStart
    \/ WorkerFinish
    \/ PoolCollect
    \/ PoolExit
    \/ StitchAndSave
    \/ FetchReturn

SpecPool == Init /\ [][NextPool]_vars

\* concurrent session creation and the shutdown handler
NextSessions ==
    \/ \E t \in Threads : ThreadCreate(t)
    \/ \E t \in Threads : ThreadRegister(t)
    \/ \E t \in Threads : ThreadSave(t)
    \/ CleanupStart
    \/ CleanupNext
    \/ CleanupClear

SpecSessions == Init /\ [][NextSessions]_vars

-----------------------------------------------------------------------------
(* Properties of the orchestrator's re-timestamping.                       *)

VideoEndpoint == "interpolate-and-generate-video"
MosaicEndpoint == "fetch-stitched-frames"

\* the pairs of the current video request whose outputs have all been moved
PairsDone == IF pc = "move" /\ moved >= RifeOutputs THEN pair + 1 ELSE pair

\* C1: every timestamp given to an interpolated frame of a pair lies strictly
\* between the timestamps of the pair's two frames and equals neither.
C1_InterpolatedStrictlyBetween ==
    \A s \in SessionIds : \A l \in DOMAIN fs[s].interp :
        LET f == fs[s].interp[l]
        IN  /\ timestamp_to_minutes(f.a) < timestamp_to_minutes(l)
            /\ timestamp_to_minutes(l) < timestamp_to_minutes(f.b)

\* the session of the current video request holds exactly two frames, stamped
\* t and t + 30 minutes
TwoFramesHalfHourApart ==
    /\ req.endpoint = VideoEndpoint
    /\ Len(frames) = 2
    /\ timestamp_to_minutes(frames[2]) = timestamp_to_minutes(frames[1]) + 30

\* C2: for a session of exactly two frames stamped t and t + 30 minutes, once
\* the 32 outputs of the pair are re-timestamped the interpolated-frames
\* directory holds exactly 32 frames, output k under the four-digit label of
\* minute t + k, for k = 0 .. 31, no label missing or repeated.
C2_TwoFramesRetimestamped ==
    (TwoFramesHalfHourApart /\ PairsDone >= 1) =>
        LET dir == fs[session_id].interp
            t == timestamp_to_minutes(frames[1])
        IN  /\ Cardinality(DOMAIN dir) = 32
            /\ \A l \in DOMAIN dir : Len(l) = 4
            /\ \A k \in 0 .. 31 :
                 \E l \in DOMAIN dir :
                    /\ timestamp_to_minutes(l) = t + k
                    /\ dir[l] = [a |-> frames[1], b |-> frames[2], k |-> k]
                    /\ \A m \in DOMAIN dir : timestamp_to_minutes(m) = t + k => m = l

C2_Witness ==
    /\ TwoFramesHalfHourApart
    /\ PairsDone = 1
    /\ pc = "idle"
    /\ response.status = 200

\* C3: a video request naming no existing session directory fails with
\* SessionNotFound, runs neither the interpolator nor the encoder, and
\* creates no directory for the identifier.
C3_UnknownSessionRejected ==
    (req.endpoint = VideoEndpoint /\ ~req.dir_existed) =>
        /\ tools = <<>>
        /\ ~fs[req.body.session_id].exists
        /\ pc = "idle"
        /\ response.status = 404

-----------------------------------------------------------------------------
(* Properties of the tile batch.                                           *)

\* the service answers some GET of the tile without an error
Served(answers) == \E i \in DOMAIN answers : answers[i] \notin {"http", "neterr"}

\* the first answer that is no error
FirstServed(answers) ==
    CHOOSE i \in DOMAIN answers :
        /\ answers[i] \notin {"http", "neterr"}
        /\ \A j \in DOMAIN answers : j < i => answers[j] \in {"http", "neterr"}

\* the cells of the batch whose fetch failed on every attempt
FailedCells == {k \in DOMAIN net : ~Served(net[k].answers)}

\* the cells of the batch that were served an image
ImageCells ==
    {k \in DOMAIN net :
        Served(net[k].answers) /\ net[k].answers[FirstServed(net[k].answers)] = "ok"}

\* C4: when the batch of a timestamp is complete, whichever cells failed on
\* every attempt, no failed cell has a tile in the list, every cell that was
\* served an image has exactly one tile in it, fetched for the cell's own
\* box, and the request has not failed.
C4_FailedTilesDropped ==
    pc = "stitch" =>
        LET tasks == TileTasks(plan)
        IN  /\ \A k \in FailedCells :
                 \A j \in DOMAIN tile_images :
                    <<tile_images[j].col, tile_images[j].row>> # <<net[k].col, net[k].row>>
            /\ \A k \in ImageCells :
                 \E j \in DOMAIN tile_images :
                    /\ tile_images[j].col = net[k].col
                    /\ tile_images[j].row = net[k].row
                    /\ tile_images[j].image.bbox = tasks[k].bbox
            /\ Len(tile_images) = Cardinality(ImageCells)
            /\ \A j \in DOMAIN tile_images : ~tile_images[j].none
            /\ response = NoResponse

C4_Witness ==
    /\ pc = "stitch"
    /\ Len(net) = 4
    /\ Cardinality(FailedCells) = 2
    /\ Cardinality(ImageCells) = 2
    /\ \E k \in ImageCells : Len(net[k].log) > 1

-----------------------------------------------------------------------------
(* Properties of one tile's fetch (SpecTile).                              *)

NumGets(log) == Cardinality({i \in DOMAIN log : log[i] = "get"})

\* C5: fetch_with_retries issues at most RETRIES + 1 GETs for a tile; it
\* returns the response of the first attempt that succeeds, with no further
\* GET; it sleeps only between two attempts, never after the last; and it
\* returns None exactly when all RETRIES + 1 attempts failed.
C5_RetryDiscipline ==
    LET log == tile.log IN
    /\ NumGets(log) <= RETRIES + 1
    /\ \A i \in DOMAIN log : (log[i] = "get") <=> (i % 2 = 1)
    /\ (log # <<>> /\ log[Len(log)] = "sleep") =>
            (tile.state = "loop" /\ NumGets(log) < RETRIES + 1)
    /\ tile.state \in {"returned", "done"} =>
         /\ log # <<>>
         /\ log[Len(log)] = "get"
         /\ IF Served(tile.answers)
            THEN /\ tile.response = tile.answers[FirstServed(tile.answers)]
                 /\ NumGets(log) = FirstServed(tile.answers)
            ELSE /\ tile.response = "None"
                 /\ NumGets(log) = RETRIES + 1

C5_Witness ==
    /\ tile.state = "done"
    /\ tile.response = "None"
    /\ NumGets(tile.log) = RETRIES + 1
    /\ Len(tile.log) = 2 * RETRIES + 1

\* a response was returned and its body is no image
DecodeFailed == tile.state = "done" /\ tile.response \notin {"None", "ok"}

\* C6 as claimed: a decode failure consumes an attempt and is retried, so a
\* tile is omitted for a decode error only after RETRIES + 1 failed attempts.
C6_DecodeFailureRetried == DecodeFailed => NumGets(tile.log) = RETRIES + 1

\* C6 as amended: a decode failure is not retried; the tile is omitted at
\* once, with no GET and no sleep after the response that did not decode.
C6_DecodeFailureDropsTile ==
    DecodeFailed =>
        /\ tile.result = "None"
        /\ NumGets(tile.log) = FirstServed(tile.answers)
        /\ tile.log[Len(tile.log)] = "get"

C6_Witness ==
    /\ DecodeFailed
    /\ tile.result = "None"
    /\ NumGets(tile.log) = 1
    /\ Served(Tail(tile.answers))

-----------------------------------------------------------------------------
(* Properties of the mosaic request.                                       *)

InMosaicLoop == pc \in {"fetch_loop", "stitch"}

\* the size every frame of the request in progress should have
FrameSize == <<plan.cols * 256, plan.rows * 256>>

\* C7 as claimed: for every timestamp stepped through, a frame of size
\* (cols x 256, rows x 256) is in the session directory, however many tiles of
\* the timestamp succeeded, none included.
C7_FramePerTimestamp ==
    InMosaicLoop =>
        \A i \in DOMAIN steps :
            /\ steps[i].ts \in DOMAIN fs[session_id].frames
            /\ fs[session_id].frames[steps[i].ts] = FrameSize

\* C7 as amended: the step that ends a timestamp writes exactly one frame, of
\* size (cols x 256, rows x 256) and named by the timestamp, when at least one
\* tile of the timestamp succeeded, and writes nothing when none did.
C7_FrameIffTiles ==
    [][ pc = "stitch" =>
          IF tile_images # <<>>
          THEN fs' = [fs EXCEPT ![session_id].frames =
                        (strftime_HHMM(current_time) :> FrameSize) @@ @]
          ELSE fs' = fs ]_vars

C7_Witness ==
    /\ pc = "fetch_loop"
    /\ \E i \in DOMAIN steps :
          steps[i].tiles = 0 /\ steps[i].ts \notin DOMAIN fs[session_id].frames
    /\ \E i \in DOMAIN steps :
          /\ steps[i].tiles = 1
          /\ steps[i].ts \in DOMAIN fs[session_id].frames
          /\ fs[session_id].frames[steps[i].ts] = <<512, 256>>

\* the step in which a mosaic request arrives
MosaicArrives == served'.mosaic # served.mosaic

\* the time of day of a request is on a :15 or :45 mark
OnMark(t) == t.m \in {15, 45}

\* local time a is later than local time b
Later(a, b) ==
    \/ a.d > b.d
    \/ a.d = b.d /\ a.h > b.h
    \/ a.d = b.d /\ a.h = b.h /\ a.m > b.m

TimesValid(r) == OnMark(r.datetime) /\ OnMark(r.endtime) /\ ~Later(r.datetime, r.endtime)

\* the request is answered 400 in the step it arrives in, with no tile
\* fetched, no directory made and nothing added to the registry
RejectedAtOnce ==
    /\ response'.status = 400
    /\ pc' = "idle"
    /\ net' = <<>>
    /\ fs' = fs
    /\ TEMP_SESSION_DIRS' = TEMP_SESSION_DIRS

\* C8: a mosaic request with cols * rows > 400 is rejected at once, with
\* "Too many tiles requested." when its times are valid; a request with
\* cols * rows <= 400 is not rejected for that reason.
C8_TooManyTilesRejected ==
    [][ MosaicArrives =>
          LET r == req'.body
              g == PlanGrid(r.bbox, r.zoom)
          IN  IF g.cols * g.rows > 400
              THEN /\ RejectedAtOnce
                   /\ TimesValid(r) => response'.detail = "Too many tiles requested."
              ELSE /\ response'.detail # "Too many tiles requested."
                   /\ TimesValid(r) => pc' = "fetch_loop" ]_vars

C8_Witness ==
    /\ req.endpoint = MosaicEndpoint
    /\ pc = "idle"
    /\ response = [status |-> 400, detail |-> "Too many tiles requested."]
    /\ PlanGrid(req.body.bbox, req.body.zoom).cols = 401
    /\ PlanGrid(req.body.bbox, req.body.zoom).rows = 1
    /\ TEMP_SESSION_DIRS = {}

InvalidInputDetails ==
    {"Only :15 or :45 minutes allowed.", "Start time must be before end time."}

\* C9: a mosaic request whose start or end minute is neither 15 nor 45, or
\* whose start is later than its end, is rejected at once with an invalid
\* input message; any other request is not; and a request with start equal
\* to end that is served steps through exactly one timestamp.
C9_TimeValidation ==
    /\ [][ MosaicArrives =>
             LET r == req'.body
             IN  IF ~OnMark(r.datetime) \/ ~OnMark(r.endtime)
                       \/ Later(r.datetime, r.endtime)
                 THEN /\ RejectedAtOnce
                      /\ response'.detail \in InvalidInputDetails
                 ELSE response'.detail \notin InvalidInputDetails ]_vars
    /\ []( ( /\ req.endpoint = MosaicEndpoint
             /\ pc = "idle"
             /\ response.status = 200
             /\ req.body.datetime = req.body.endtime )
           => Len(steps) = 1 )

C9_Witness ==
    /\ req.endpoint = MosaicEndpoint
    /\ req.body.datetime.m = 20
    /\ pc = "idle"
    /\ response = [status |-> 400, detail |-> "Only :15 or :45 minutes allowed."]
    /\ TEMP_SESSION_DIRS = {}
    /\ \A s \in SessionIds : ~fs[s].exists

\* the projected box of the request does not satisfy minX < maxX, minY < maxY
InvalidBox(r) ==
    LET g == PlanGrid(r.bbox, r.zoom)
    IN  ~(g.min_x < g.max_x /\ g.min_y < g.max_y)

\* C10: a mosaic request with an invalid box is rejected with an invalid
\* input error before any fetch and before a session is made, so that every
\* accepted request has cols >= 1, rows >= 1 and cols * rows <= 400.
C10_InvalidBoxRejected ==
    /\ (req.endpoint = MosaicEndpoint /\ InvalidBox(req.body)) =>
            (pc = "idle" /\ response.status = 400)
    /\ InMosaicLoop =>
            (plan.cols >= 1 /\ plan.rows >= 1 /\ plan.cols * plan.rows <= 400)

-----------------------------------------------------------------------------
(* Properties of the frame sequence of a session.                          *)

\* the time steps of the mosaic request whose frame was written
WrittenSteps == {i \in DOMAIN steps : steps[i].tiles > 0}

\* C11: within one session the HHMM labels of the frames written by a mosaic
\* request increase strictly in the order the time steps are processed, so
\* no two time steps share a label.
C11_LabelsIncreasing ==
    (req.endpoint = MosaicEndpoint /\ InMosaicLoop) =>
        \A i, j \in WrittenSteps :
            i < j => IntOf(steps[i].ts) < IntOf(steps[j].ts)

\* a pair is staged for the interpolator
PairStaged == req.endpoint = VideoEndpoint /\ pc = "rife"

\* C12: every pair staged is a pair of consecutive time steps of the request,
\* its first frame showing the earlier time: the second frame shows the time
\* one interval after the first.
C12_PairsTemporallyAdjacent ==
    PairStaged =>
        LET a == fs[session_id].tmp[1]
            b == fs[session_id].tmp[2]
        IN  /\ a \in DOMAIN taken[session_id]
            /\ b \in DOMAIN taken[session_id]
            /\ taken[session_id][b] = taken[session_id][a] + 30

-----------------------------------------------------------------------------
(* Properties of sessions under concurrency (SpecSessions).                *)

\* the threads whose request has made its session directory
Created == {t \in Threads : conc.threads[t].pc # "idle"}

\* C13: any two accepted mosaic requests of one process lifetime get
\* different session identifiers, hence different directories, so no request
\* saves its frames into the directory of another.
C13_SessionsDistinct ==
    \A t, u \in Created :
        t # u => conc.threads[t].session_id # conc.threads[u].session_id

\* C14: under any interleaving of mosaic requests and the shutdown cleanup,
\* every registered directory is tracked until the registry is cleared, the
\* cleanup never raises because the registry changed while it iterates, and
\* when it completes every directory registered so far has been deleted.
C14_CleanupComplete ==
    /\ conc.handler.pc \in {"idle", "iter", "clear"} => Registered \subseteq TEMP_SESSION_DIRS
    /\ conc.handler.pc # "raised"
    /\ conc.handler.pc = "done" => conc.handler.left = {}

-----------------------------------------------------------------------------
(* Properties of the video request.                                        *)

Count(seq, x) == Cardinality({i \in DOMAIN seq : seq[i] = x})

\* the video request has ended with this response
VideoEnded == req.endpoint = VideoEndpoint /\ pc = "idle"

\* the pairs of the sorted frame list
NumPairs == IF Len(frames) > 1 THEN Len(frames) - 1 ELSE 0

\* every output of pair j is in the interpolated-frames directory
PairInterpolated(j) ==
    \A k \in 0 .. 31 :
        minutes_to_timestamp(timestamp_to_minutes(frames[j + 1]) + k)
            \in DOMAIN fs[session_id].interp

\* C15: an interpolator or encoder failure ends the video request with an
\* error: no later pair is interpolated, the encoder does not run after an
\* interpolator failure, no step is run twice, and no video path is returned;
\* a video path is returned only when every pair was interpolated and the
\* encoder succeeded.
C15_FailureAborts ==
    req.endpoint = VideoEndpoint =>
        /\ Count(tools, "ffmpeg") <= 1
        /\ \A i \in DOMAIN tools : tools[i] = "ffmpeg" => i = Len(tools)
        /\ Count(tools, "rife") <= pair + 1
        /\ (VideoEnded /\ response.detail = "RIFE interpolation failed") =>
              /\ response.status = 500
              /\ "video_path" \notin DOMAIN response
              /\ Count(tools, "ffmpeg") = 0
              /\ Count(tools, "rife") = pair + 1
              /\ pair < NumPairs
        /\ (VideoEnded /\ response.detail \in
                {"FFmpeg failed", "FFmpeg not found. Set FFMPEG_PATH correctly."}) =>
              /\ response.status = 500
              /\ "video_path" \notin DOMAIN response
              /\ Count(tools, "ffmpeg") = 1
        /\ (VideoEnded /\ "video_path" \in DOMAIN response) =>
              /\ response.status = 200
              /\ tools = [i \in 1 .. NumPairs + 1 |->
                            IF i <= NumPairs THEN "rife" ELSE "ffmpeg"]
              /\ \A j \in 0 .. NumPairs - 1 : PairInterpolated(j)
              /\ fs[session_id].video

C15_Witness ==
    /\ VideoEnded
    /\ response = [status |-> 500, detail |-> "RIFE interpolation failed"]
    /\ NumPairs = 3
    /\ pair = 1
    /\ tools = <<"rife", "rife">>
    /\ ~fs[session_id].video

\* the number of labels of D whose time of day is before that of label l
Rank(l, D) ==
    Cardinality({m \in D : timestamp_to_minutes(m) < timestamp_to_minutes(l)})

\* C16: with N timestamp-named frames in the interpolated-frames directory,
\* the renumbering leaves exactly 0.png .. (N-1).png in the renamed
\* directory, file k a copy of the frame with the k-th smallest timestamp.
C16_RenumberedInOrder ==
    (req.endpoint = VideoEndpoint /\ pc = "encode") =>
        LET dir == fs[session_id].interp
            ren == fs[session_id].renamed
        IN  /\ DOMAIN ren = 0 .. Cardinality(DOMAIN dir) - 1
            /\ \A l \in DOMAIN dir : ren[Rank(l, DOMAIN dir)] = dir[l]

C16_Witness ==
    /\ req.endpoint = VideoEndpoint
    /\ pc = "encode"
    /\ Cardinality(DOMAIN fs[session_id].interp) = 62
    /\ DOMAIN fs[session_id].renamed = 0 .. 61
    /\ fs[session_id].renamed[0] = fs[session_id].interp[<<2, 2, 4, 5>>]
    /\ fs[session_id].renamed[61] = fs[session_id].interp[<<2, 3, 4, 6>>]

\* C17: pairs are processed one after the other in ascending label order:
\* a pair after the first is staged only when the 32 outputs of the pair
\* before it have been moved and the scratch directory discarded, each pair
\* is interpolated once, and renumbering and encoding start only when the
\* last pair is finished.
C17_PairsSequential ==
    [][ /\ (pc # "rife" /\ pc' = "rife") =>
              /\ pc = "pairs"
              /\ pair' = pair
              /\ Count(tools, "rife") = pair
              /\ pair > 0 => /\ moved = 32
                             /\ ~fs[session_id].tmp_dir
                             /\ fs[session_id].output = <<>>
                             /\ PairInterpolated(pair - 1)
              /\ fs'[session_id].tmp = <<frames[pair + 1], frames[pair + 2]>>
              /\ FrameKey(frames[pair + 1]) < FrameKey(frames[pair + 2])
        /\ (pair' # pair /\ pair' # 0) =>
              /\ pair' = pair + 1
              /\ pc = "move"
              /\ moved = 32
              /\ fs[session_id].output = <<>>
              /\ ~fs'[session_id].tmp_dir
        /\ (pc = "pairs" /\ pc' \in {"encode", "idle"}) =>
              /\ pair = NumPairs
              /\ Count(tools, "rife") = NumPairs
              /\ NumPairs > 0 => ~fs[session_id].tmp_dir
        /\ (pc # "encode" /\ pc' = "encode") => pc = "pairs"
        /\ Count(tools', "ffmpeg") > Count(tools, "ffmpeg") =>
              /\ pc = "encode"
              /\ pair = NumPairs
              /\ fs[session_id].renamed_dir ]_vars

C17_Witness ==
    /\ req.endpoint = VideoEndpoint
    /\ pc = "rife"
    /\ pair = 1
    /\ tools = <<"rife">>
    /\ PairInterpolated(0)
    /\ fs[session_id].tmp = <<frames[2], frames[3]>>
    /\ fs[session_id].output = <<>>

-----------------------------------------------------------------------------
(* Properties of the batch's worker pool (SpecPool).                       *)

\* the cells enumerated for the batch in progress
NumCells == Len(TileTasks(plan))

\* the time steps of the request that come before current_time
StepsBefore == (current_time - strptime(req.body.datetime)) \div 30

\* C18: during a batch at most MAX_WORKERS (8) tile fetches are in progress;
\* every enumerated cell is fetched exactly once; the mosaic of the timestamp
\* is assembled only when every cell's fetch has finished and been
\* collected; and a batch starts only when the frames of the timestamps
\* before it have been assembled.
C18_BoundedPool ==
    /\ [](pc = "batch" =>
            /\ Cardinality(Running) <= 8
            /\ pool.started <= pool.submitted
            /\ pool.submitted <= NumCells
            /\ pool.finished \subseteq 1 .. pool.started
            /\ pool.yielded \subseteq pool.finished)
    /\ [][ /\ (pc = "batch" /\ pc' # "batch") =>
                /\ pc' = "stitch"
                /\ pool.started = NumCells
                /\ pool.finished = 1 .. NumCells
                /\ pool.yielded = 1 .. NumCells
                /\ Len(net') = NumCells
                /\ pool' = NoPool
           /\ (pc # "batch" /\ pc' = "batch") =>
                /\ pc = "fetch_loop"
                /\ pool = NoPool
                /\ Len(steps) = StepsBefore
           /\ (pc' = "stitch" /\ pc # "stitch") => pc = "batch" ]_vars

C18_Witness ==
    /\ pc = "batch"
    /\ NumCells = 9
    /\ pool.submitted = 9
    /\ pool.started = 8
    /\ Cardinality(Running) = 8

-----------------------------------------------------------------------------
(* Properties of the assembled mosaic.                                     *)

\* the list of tiles in the order given by the permutation p of its indices
Permuted(tiles, p) == [j \in DOMAIN tiles |-> tiles[p[j]]]

\* the orders of a list of n tiles compared: every order of a short list,
\* the reverse order of a long one
Reorderings(n) ==
    IF n <= 4
    THEN {p \in [1 .. n -> 1 .. n] : Injective(p)}
    ELSE { [j \in 1 .. n |-> n + 1 - j] }

\* C19: the mosaic does not depend on the order in which the tiles
\* completed: the tile of cell (col, row) is at pixel offset
\* (col x 256, (rows - 1 - row) x 256), the tiles of distinct cells lie inside
\* the canvas without overlapping, and the tiles in any other order give the
\* same image.
C19_OrderIndependent ==
    pc = "stitch" =>
        \A img \in {Stitch(NewImage(plan.cols, plan.rows), tile_images, plan.rows)} :
            /\ \A j \in DOMAIN tile_images :
                 \A o \in {<<tile_images[j].col * 256,
                             (plan.rows - 1 - tile_images[j].row) * 256>>} :
                    /\ o \in DOMAIN img.px
                    /\ img.px[o] = tile_images[j].image
                    /\ 0 <= o[1] /\ o[1] + 256 <= img.size[1]
                    /\ 0 <= o[2] /\ o[2] + 256 <= img.size[2]
            /\ \A o1, o2 \in DOMAIN img.px :
                 o1 # o2 => \/ o1[1] + 256 <= o2[1] \/ o2[1] + 256 <= o1[1]
                            \/ o1[2] + 256 <= o2[2] \/ o2[2] + 256 <= o1[2]
            /\ Cardinality(DOMAIN img.px) = Len(tile_images)
            /\ \A p \in Reorderings(Len(tile_images)) :
                 Stitch(NewImage(plan.cols, plan.rows), Permuted(tile_images, p),
                        plan.rows) = img

C19_Witness ==
    /\ pc = "stitch"
    /\ plan.cols = 2 /\ plan.rows = 2
    /\ Len(tile_images) = 4
    /\ <<tile_images[1].col, tile_images[1].row>> = <<1, 1>>
    /\ <<tile_images[2].col, tile_images[2].row>> = <<0, 0>>
    /\ <<tile_images[3].col, tile_images[3].row>> = <<1, 0>>

-----------------------------------------------------------------------------
(* Properties of the interpolated-frames directory.                        *)

\* every pair of the video request has been interpolated and moved
AllPairsDone ==
    /\ req.endpoint = VideoEndpoint
    /\ pc = "pairs"
    /\ Len(frames) >= 2
    /\ pair = Len(frames) - 1

\* C20: for a session of k >= 2 frames whose interpolations all succeed, no
\* output of one pair is overwritten by an output of another: after the last
\* pair the interpolated-frames directory holds 32 x (k - 1) frames.
C20_NoPairOverwritten ==
    AllPairsDone =>
        Cardinality(DOMAIN fs[session_id].interp) = 32 * (Len(frames) - 1)

-----------------------------------------------------------------------------
(* Properties of grid planning (SpecGrid).                                 *)

\* the cells of the planned grid
Cells == {grid.tiles[k] : k \in 1 .. Len(grid.tiles)}

\* the planned cells reach over the whole requested box
CoversBox ==
    /\ \E t \in Cells : t.bbox[1] <= grid.bbox[1]
    /\ \E t \in Cells : t.bbox[2] <= grid.bbox[2]
    /\ \E t \in Cells : t.bbox[3] >= grid.bbox[3]
    /\ \E t \in Cells : t.bbox[4] >= grid.bbox[4]

\* exactly one cell per (col, row) of a cols x rows grid
OnePerCell(cols, rows) ==
    /\ Len(grid.tiles) = cols * rows
    /\ \A col \in 0 .. cols - 1, row \in 0 .. rows - 1 :
        \E t \in Cells : t.x = col /\ t.y = row

\* C21: grid planning emits exactly cols x rows cells, one per (col, row),
\* and the cells together cover the whole requested planar box; in the
\* archival path the grid runs from the floor of the box's minimum to the
\* ceiling of its maximum, in tile sizes.
C21_ArchiveGridCovers ==
    grid.state = "archival" =>
        /\ OnePerCell(
             math_ceil(truediv(grid.bbox[3], grid.tile_size))
               - math_floor(truediv(grid.bbox[1], grid.tile_size)),
             math_ceil(truediv(grid.bbox[4], grid.tile_size))
               - math_floor(truediv(grid.bbox[2], grid.tile_size)))
        /\ CoversBox

\* the mosaic path's part of C21, in exact arithmetic: tile_tasks holds one
\* cell per (col, row) of the cols x rows grid, each the tile_extent square
\* at its place from the snapped origin, and the cells reach over a box
\* with min_x < max_x and min_y < max_y
C21_MosaicGridCovers ==
    ( /\ pc \in {"fetch_loop", "batch", "stitch"} /\ req.endpoint = MosaicEndpoint
      /\ plan.min_x < plan.max_x /\ plan.min_y < plan.max_y ) =>
        \A tasks \in {TileTasks(plan)} :
            /\ Len(tasks) = plan.cols * plan.rows
            /\ \A col \in 0 .. plan.cols - 1, row \in 0 .. plan.rows - 1 :
                \E k \in 1 .. Len(tasks) :
                    /\ tasks[k].col = col /\ tasks[k].row = row
                    /\ tasks[k].bbox =
                         << plan.snapped_min_x + col * plan.tile_extent,
                            plan.snapped_min_y + row * plan.tile_extent,
                            plan.snapped_min_x + (col + 1) * plan.tile_extent,
                            plan.snapped_min_y + (row + 1) * plan.tile_extent >>
            /\ plan.snapped_min_x <= plan.min_x
            /\ plan.snapped_min_y <= plan.min_y
            /\ plan.snapped_min_x + plan.cols * plan.tile_extent >= plan.max_x
            /\ plan.snapped_min_y + plan.rows * plan.tile_extent >= plan.max_y

-----------------------------------------------------------------------------
(* Properties of the archival batch (SpecBatch).                           *)

\* C22: once fetch_tiles_concurrently has finished a batch, the Downloaded
\* count it reports is the number of tiles whose image was saved and the
\* Failed count is the number of tiles that were not saved, whatever the
\* interleaving of the worker threads.
C22_CountsMatchSaved ==
    batch.state = "reported" =>
        /\ batch.Downloaded = Cardinality(batch.saved)
        /\ batch.Failed = Len(batch.tiles) - Cardinality(batch.saved)

\* the part of C22 that the interleaving alone breaks: when every tile of
\* the batch was saved, all of them are reported as downloaded
C22_AllSavedAllCounted ==
    (batch.state = "reported" /\ Cardinality(batch.saved) = Len(batch.tiles)) =>
        batch.Downloaded = Len(batch.tiles)

=============================================================================
